---- MODULE Spec2Model ----
(***************************************************************************)
(* State-machine model of the client-side "backend" of the Christmas tree  *)
(* decorator: the two cart modules (convex/cart.ts, convex-dev/cart.ts),   *)
(* the order store, the checkout handler of the App and the auth module.   *)
(*                                                                         *)
(* JavaScript objects are modelled with their identity: a cart is an       *)
(* object on a heap and the stores, the orders and the callers hold        *)
(* references to it, so that an in-place mutation is seen through every    *)
(* reference.  A cart item is a value inside its cart object: convex/      *)
(* cart.ts never shares an item object between two cart objects, and       *)
(* convex-dev/cart.ts, which does, never mutates an item object.           *)
(*                                                                         *)
(* An async function runs synchronously up to its first await, so a        *)
(* handler without await is one atomic action, and a handler with awaits   *)
(* is one action per segment between its awaits.                           *)
(***************************************************************************)
EXTENDS Integers, Sequences, FiniteSets, TLC

\* ------------------------------------------------------------------ bounds
\* Line items over all cart objects of one module (live carts and snapshots).
MaxItems == 2
\* Orders created through orders.create.
MaxOrders == 2
MaxOrderCalls == 5
\* Calls made in one run of convex/cart.ts with the App.
MaxCalls == 4
\* Calls made in one run of convex-dev/cart.ts with convex-dev/orders.ts.
MaxDevCalls == 3
\* Ornaments on the tree.
MaxOrnaments == 2
\* Calls made in one run of the ornament, topper or session module.
MaxTreeCalls == 4
\* Steps of one run of convex-dev/auth.ts: segments of calls and clock advances.
MaxAuthSteps == 5
\* Calls of convex-dev/auth.ts waiting at an await at the same time.
MaxPending == 2
\* Session lifetimes the clock of convex-dev/auth.ts runs through.
MaxLifetimes == 1
\* Prices tried at the checkout: this many cents to either side of half the
\* free-shipping threshold.
PriceSpread == 5

\* ------------------------------------------------------------ input domains
Sessions == {"s1", "s2"}
Callbacks == {"cb1", "cb2"}
Quantities == {0, 2}

Undefined == "undefined"
NoCustomization == [defined |-> FALSE, color |-> Undefined, position |-> <<>>]

Customization(c, p) == [defined |-> TRUE, color |-> c, position |-> p]

AddArg(t, p, q, u, c) ==
  [productType |-> t, productId |-> p, quantity |-> q, unitPrice |-> u, customization |-> c]

\* The calls of addItem that are tried: the products and prices of the
\* catalogue, as data/cartStore.ts passes them, the ornament with quantity 2.
AddArgs ==
  { AddArg("tree", "tree-small", 1, 4900, NoCustomization),
    AddArg("tree", "tree-medium", 1, 8900, NoCustomization),
    AddArg("ornament", "orn-sphere", 2, 599, Customization("red", <<1, 2, 3>>)),
    AddArg("topper", "top-star", 1, 1499, Customization("gold", <<>>)) }

\* ------------------------------------------------------------------- heap
NoRef == 0
Refs == 1 .. (Cardinality(Sessions) + MaxOrders + 1)
ItemIds == 1 .. (MaxItems + 1)

\* What `cartStore.get(sessionId) || null` yields for a session without cart.
NullCart == [sessionId |-> "null", items |-> <<>>, subtotal |-> 0]

Min(S) == CHOOSE x \in S : \A y \in S : x <= y

Range(f) == {f[x] : x \in DOMAIN f}

\* Array.prototype.filter
Filter(seq, Keep(_)) == SelectSeq(seq, Keep)

\* Array.prototype.findIndex, 0 standing for -1
FindIndex(seq, P(_)) ==
  IF \E i \in 1..Len(seq) : P(seq[i])
  THEN Min({i \in 1..Len(seq) : P(seq[i])})
  ELSE 0

\* JSON.stringify of an optional [x, y, z]; <<>> is undefined
StringifyPosition(pos) ==
  IF pos = <<>> THEN <<>>
  ELSE <<"[", pos[1], ",", pos[2], ",", pos[3], "]">>

RECURSIVE calculateCartTotal(_)
calculateCartTotal(items) ==
  IF items = <<>> THEN 0
  ELSE calculateCartTotal(SubSeq(items, 1, Len(items) - 1))
         + items[Len(items)].unitPrice * items[Len(items)].quantity

\* The line items held by the objects of a heap
HeapItems(heap) == UNION {{<<r, i>> : i \in 1..Len(heap[r].items)} : r \in DOMAIN heap}

UsedItemIds(heap) == {heap[ri[1]].items[ri[2]].id : ri \in HeapItems(heap)}

\* generateItemId: an id that no item carries
generateItemId(heap) == Min(ItemIds \ UsedItemIds(heap))

\* `new` of a cart object: a reference that is not in use
NewRef(heap) == Min(Refs \ DOMAIN heap)

\* Objects no store and no order refers to are dropped
Collect(heap, roots) == [r \in (DOMAIN heap) \cap roots |-> heap[r]]

\* A notification that stops after the first callback
NotifyFirstOnly(ls, view) ==
  [i \in 1..(IF Len(ls) > 1 THEN 1 ELSE Len(ls)) |-> [callback |-> ls[i], seen |-> view]]

\* listeners.forEach((l) => l()): every callback, in insertion order, reads
\* the store as it is when it runs
notifyListeners(ls, view) == [i \in 1..Len(ls) |-> [callback |-> ls[i], seen |-> view]]

\* Set.prototype.add / delete on an insertion-ordered set
SetAdd(ls, cb) == IF cb \in Range(ls) THEN ls ELSE Append(ls, cb)

\* A returned function that deletes nothing
SetDeleteNothing(ls, cb) == ls

SetDelete(ls, cb) == Filter(ls, LAMBDA x : x # cb)

\* What the queries of a cart module return: the cart of every session
CartView(heap, store) ==
  [s \in Sessions |-> IF store[s] = NoRef THEN NullCart ELSE heap[store[s]]]

\* ===================================================== convex/cart.ts
VARIABLES
  scope,           \* which module family this run exercises
  calls,           \* number of calls made so far
  cartHeap,        \* the Cart objects: reference -> [sessionId, items, subtotal]
  cartStore,       \* cartStore: sessionId -> reference (NoRef: no entry)
  listeners,       \* listeners, in insertion order
  cartCall,        \* the last call: operation, arguments, return value, callbacks run
  completedOrder   \* the App's completedOrder (React state)

cartVars == <<cartHeap, cartStore, listeners, cartCall, completedOrder>>

NoAdd == AddArg("none", "none", 0, 0, NoCustomization)
NoOrder == [id |-> 0, sessionId |-> "none", cartSnapshot |-> NoRef, status |-> "none",
            stripeSessionId |-> "none", subtotal |-> 0, shippingCost |-> 0, tax |-> 0, total |-> 0]

\* The record of a call: `at` is its number in the run
Call(op, s, a, id, q, ret, notified) ==
  [at |-> calls + 1, op |-> op, sessionId |-> s, add |-> a, itemId |-> id, quantity |-> q,
   ret |-> ret, notified |-> notified]

NoCall == [at |-> 0, op |-> "none", sessionId |-> "none", add |-> NoAdd, itemId |-> 0,
           quantity |-> 0, ret |-> "void", notified |-> <<>>]

\* const newItem: CartItem = { id: generateItemId(), ...args }
NewItem(heap, a) ==
  [id |-> generateItemId(heap), productType |-> a.productType, productId |-> a.productId,
   quantity |-> a.quantity, unitPrice |-> a.unitPrice, customization |-> a.customization]

\* A findIndex predicate that looks for the tree or topper of the cart,
\* whatever its product
SameProductType(item, a) ==
  IF a.productType = "tree" \/ a.productType = "topper"
  THEN item.productType = a.productType
  ELSE /\ item.productId = a.productId
       /\ a.productType = "ornament" /\ a.customization.defined
       /\ item.customization.color = a.customization.color
       /\ StringifyPosition(item.customization.position)
            = StringifyPosition(a.customization.position)

\* The findIndex predicate of addItem
SameProduct(item, a) ==
  IF item.productId # a.productId THEN FALSE
  ELSE IF a.productType = "tree" \/ a.productType = "topper" THEN TRUE
  ELSE IF a.productType = "ornament" /\ a.customization.defined
       THEN /\ item.customization.color = a.customization.color
            /\ StringifyPosition(item.customization.position)
                 = StringifyPosition(a.customization.position)
       ELSE FALSE

existingIndex(items, a) == FindIndex(items, LAMBDA item : SameProduct(item, a))

\* An addItem that raises the quantity of a matching ornament instead of
\* pushing a second line
AddToItemsMerging(items, newItem, a) ==
  IF existingIndex(items, a) >= 1
  THEN IF a.productType = "tree" \/ a.productType = "topper"
       THEN [items EXCEPT ![existingIndex(items, a)] = newItem]
       ELSE [items EXCEPT ![existingIndex(items, a)].quantity = @ + a.quantity]
  ELSE Append(items, newItem)

\* Replace tree/topper, push anything else
AddToItems(items, newItem, a) ==
  IF existingIndex(items, a) >= 1 /\ (a.productType = "tree" \/ a.productType = "topper")
  THEN [items EXCEPT ![existingIndex(items, a)] = newItem]
  ELSE Append(items, newItem)

\* A first subtotal that forgets the quantity
FirstSubtotalOfOne(a) == a.unitPrice

\* subtotal of a cart created by addItem
FirstSubtotal(a) == a.unitPrice * a.quantity

\* cart.items.filter((item) => item.id !== args.itemId)
WithoutItem(items, id) == Filter(items, LAMBDA item : item.id # id)

\* An update that moves the item it changes to the end of the list
WithQuantityAtEnd(items, id, q) ==
  LET i == FindIndex(items, LAMBDA item : item.id = id)
  IN  IF i = 0 THEN items
      ELSE Append(Filter(items, LAMBDA item : item.id # id), [items[i] EXCEPT !.quantity = q])

\* item.quantity = args.quantity, on the item that find() returns
WithQuantity(items, id, q) ==
  LET i == FindIndex(items, LAMBDA item : item.id = id)
  IN  IF i = 0 THEN items ELSE [items EXCEPT ![i].quantity = q]

\* shipping, tax and total of handleCheckout
ShippingCost(subtotal) == IF subtotal >= 50000 THEN 0 ELSE 1999
Tax(subtotal) == (subtotal * 8 + 50) \div 100

\* An early return that still runs the callbacks
ReturnNullNotifying(op, s, id, q) ==
  Call(op, s, NoAdd, id, q, "null", notifyListeners(listeners, CartView(cartHeap, cartStore)))

\* if (!cart) return null;
ReturnNull(op, s, id, q) == Call(op, s, NoAdd, id, q, "null", <<>>)

InitCart ==
  /\ cartHeap = <<>>
  /\ cartStore = [s \in Sessions |-> NoRef]
  /\ listeners = <<>>
  /\ cartCall = NoCall
  /\ completedOrder = NoOrder

\* get
Get(s) ==
  /\ cartCall' = Call("get", s, NoAdd, 0, 0, IF cartStore[s] = NoRef THEN "null" ELSE "cart", <<>>)
  /\ UNCHANGED <<cartHeap, cartStore, listeners, completedOrder>>

\* addItem
AddItem(s, a) ==
  LET newItem == NewItem(cartHeap, a)
      ref == cartStore[s]
      items2 == AddToItems(cartHeap[ref].items, newItem, a)
      heap2 == IF ref # NoRef
               THEN [cartHeap EXCEPT ![ref] =
                       [@ EXCEPT !.items = items2, !.subtotal = calculateCartTotal(items2)]]
               ELSE cartHeap @@ (NewRef(cartHeap) :>
                       [sessionId |-> s, items |-> <<newItem>>, subtotal |-> FirstSubtotal(a)])
      store2 == IF ref # NoRef THEN cartStore ELSE [cartStore EXCEPT ![s] = NewRef(cartHeap)]
  IN  /\ Cardinality(HeapItems(heap2)) <= MaxItems
      /\ cartHeap' = heap2
      /\ cartStore' = store2
      /\ cartCall' = Call("addItem", s, a, 0, 0, "cart",
                          notifyListeners(listeners, CartView(heap2, store2)))
      /\ UNCHANGED <<listeners, completedOrder>>

\* removeItem
RemoveItem(s, id) ==
  LET ref == cartStore[s]
      items2 == WithoutItem(cartHeap[ref].items, id)
      heap2 == [cartHeap EXCEPT ![ref] =
                  [@ EXCEPT !.items = items2, !.subtotal = calculateCartTotal(items2)]]
  IN  IF ref = NoRef
      THEN /\ cartCall' = ReturnNull("removeItem", s, id, 0)
           /\ UNCHANGED <<cartHeap, cartStore, listeners, completedOrder>>
      ELSE /\ cartHeap' = heap2
           /\ cartCall' = Call("removeItem", s, NoAdd, id, 0, "cart",
                               notifyListeners(listeners, CartView(heap2, cartStore)))
           /\ UNCHANGED <<cartStore, listeners, completedOrder>>

\* updateQuantity
UpdateQuantity(s, id, q) ==
  LET ref == cartStore[s]
      items == cartHeap[ref].items
      found == \E i \in 1..Len(items) : items[i].id = id
      items2 == IF q <= 0 THEN WithoutItem(items, id) ELSE WithQuantity(items, id, q)
      heap2 == IF found
               THEN [cartHeap EXCEPT ![ref] =
                       [@ EXCEPT !.items = items2, !.subtotal = calculateCartTotal(items2)]]
               ELSE cartHeap
  IN  IF ref = NoRef
      THEN /\ cartCall' = ReturnNull("updateQuantity", s, id, q)
           /\ UNCHANGED <<cartHeap, cartStore, listeners, completedOrder>>
      ELSE /\ cartHeap' = heap2
           /\ cartCall' = Call("updateQuantity", s, NoAdd, id, q, "cart",
                               notifyListeners(listeners, CartView(heap2, cartStore)))
           /\ UNCHANGED <<cartStore, listeners, completedOrder>>

\* clear
Clear(s) ==
  LET store2 == [cartStore EXCEPT ![s] = NoRef]
      heap2 == Collect(cartHeap, Range(store2) \cup {completedOrder.cartSnapshot})
  IN  /\ cartStore' = store2
      /\ cartHeap' = heap2
      /\ cartCall' = Call("clear", s, NoAdd, 0, 0, "void",
                          notifyListeners(listeners, CartView(heap2, store2)))
      /\ UNCHANGED <<listeners, completedOrder>>

\* _reset
Reset ==
  LET store2 == [s \in Sessions |-> NoRef]
      heap2 == Collect(cartHeap, {completedOrder.cartSnapshot})
  IN  /\ cartStore' = store2
      /\ cartHeap' = heap2
      /\ cartCall' = Call("_reset", "none", NoAdd, 0, 0, "void",
                          notifyListeners(listeners, CartView(heap2, store2)))
      /\ UNCHANGED <<listeners, completedOrder>>

\* subscribe
Subscribe(cb) ==
  /\ listeners' = SetAdd(listeners, cb)
  /\ cartCall' = Call("subscribe", cb, NoAdd, 0, 0, "unsubscribe", <<>>)
  /\ UNCHANGED <<cartHeap, cartStore, completedOrder>>

\* the function subscribe returned
Unsubscribe(cb) ==
  /\ cb \in Range(listeners)
  /\ listeners' = SetDelete(listeners, cb)
  /\ cartCall' = Call("unsubscribe", cb, NoAdd, 0, 0, "void", <<>>)
  /\ UNCHANGED <<cartHeap, cartStore, completedOrder>>

\* The session of the browser, getSessionId()
LocalSession == "s1"

\* handleCheckout of the App: cartStore.cart is the React state that the
\* subscription of useCartStore keeps equal to cartApi.get({sessionId}).
HandleCheckout ==
  LET ref == cartStore[LocalSession]
      subtotal == cartHeap[ref].subtotal
      order == [id |-> 1, sessionId |-> "local-session", cartSnapshot |-> ref, status |-> "paid",
                stripeSessionId |-> "mock_stripe", subtotal |-> subtotal,
                shippingCost |-> ShippingCost(subtotal), tax |-> Tax(subtotal),
                total |-> subtotal + ShippingCost(subtotal) + Tax(subtotal)]
      store2 == [cartStore EXCEPT ![LocalSession] = NoRef]
      heap2 == Collect(cartHeap, Range(store2) \cup {ref})
  IN  /\ ref # NoRef
      /\ completedOrder' = order
      /\ cartStore' = store2
      /\ cartHeap' = heap2
      /\ cartCall' = Call("handleCheckout", LocalSession, NoAdd, 0, 0, "void",
                          notifyListeners(listeners, CartView(heap2, store2)))
      /\ UNCHANGED listeners

\* ================================== convex-dev/cart.ts, convex-dev/orders.ts
VARIABLES
  devHeap,         \* the Cart objects of convex-dev/cart.ts
  devStore,        \* its cartStore
  devListeners,    \* its listeners
  devCall,         \* its last call
  devStorage,      \* localStorage['christmas_tree_cart'], parsed
  ordersStore,     \* ordersStore: entries [sessionId, orders] in insertion order
  ordersListeners, \* listeners of convex-dev/orders.ts
  ordersCall       \* the last call of convex-dev/orders.ts

devVars == <<devHeap, devStore, devListeners, devCall, devStorage,
             ordersStore, ordersListeners, ordersCall>>

StripeIds == {"cs_1", "cs_2"}
Statuses == {"paid", "cancelled"}

\* Every order of the store, in Map iteration order
RECURSIVE AllOrders(_)
AllOrders(store) ==
  IF store = <<>> THEN <<>> ELSE Head(store).orders \o AllOrders(Tail(store))

SnapshotRefs(store) == {AllOrders(store)[i].cartSnapshot : i \in 1..Len(AllOrders(store))}

DevRoots(store, orders) == Range(store) \cup SnapshotRefs(orders)

\* JSON.parse(JSON.stringify(data)) of saveToStorage / loadFromStorage: one
\* key per session that has a cart; an undefined customization or position
\* is left out by stringify and reads as undefined again.
JsonItem(item) ==
  [id |-> item.id, productType |-> item.productType, productId |-> item.productId,
   quantity |-> item.quantity, unitPrice |-> item.unitPrice,
   customization |-> IF item.customization.defined
                     THEN Customization(item.customization.color, item.customization.position)
                     ELSE NoCustomization]

JsonCart(cart) ==
  [sessionId |-> cart.sessionId,
   items |-> [i \in 1..Len(cart.items) |-> JsonItem(cart.items[i])],
   subtotal |-> cart.subtotal]

saveToStorage(heap, store) ==
  [s \in {t \in Sessions : store[t] # NoRef} |-> JsonCart(heap[store[s]])]

\* A load that keeps the carts but reads every subtotal as 0
loadWithoutSubtotals(storage) ==
  LET keys == DOMAIN storage
      refOf == CHOOSE f \in [keys -> 1..Cardinality(keys)] :
                 \A s, t \in keys : f[s] = f[t] => s = t
  IN  [store |-> [s \in Sessions |-> IF s \in keys THEN refOf[s] ELSE NoRef],
       heap |-> [r \in 1..Cardinality(keys) |->
                   LET s == CHOOSE t \in keys : refOf[t] = r
                   IN  [storage[s] EXCEPT !.subtotal = 0]]]

\* loadFromStorage into the empty cartStore of a module just loaded: one new
\* Cart object per key of the stored object
loadFromStorage(storage) ==
  LET keys == DOMAIN storage
      refOf == CHOOSE f \in [keys -> 1..Cardinality(keys)] :
                 \A s, t \in keys : f[s] = f[t] => s = t
  IN  [store |-> [s \in Sessions |-> IF s \in keys THEN refOf[s] ELSE NoRef],
       heap |-> [r \in 1..Cardinality(keys) |->
                   LET s == CHOOSE t \in keys : refOf[t] = r
                   IN  storage[s]]]

\* notifyListeners of convex-dev/cart.ts: save, then run the callbacks
DevNotify(ls, heap, store) == notifyListeners(ls, CartView(heap, store))

InitDev ==
  /\ devHeap = <<>>
  /\ devStore = [s \in Sessions |-> NoRef]
  /\ devListeners = <<>>
  /\ devCall = NoCall
  /\ devStorage = <<>>
  /\ ordersStore = <<>>
  /\ ordersListeners = <<>>
  /\ ordersCall = [at |-> 0, op |-> "none", ret |-> 0, notified |-> <<>>]

\* get
DevGet(s) ==
  /\ devCall' = Call("get", s, NoAdd, 0, 0, IF devStore[s] = NoRef THEN "null" ELSE "cart", <<>>)
  /\ UNCHANGED <<devHeap, devStore, devListeners, devStorage>>

\* addItem
DevAddItem(s, a) ==
  LET newItem == NewItem(devHeap, a)
      ref == devStore[s]
      items2 == AddToItems(devHeap[ref].items, newItem, a)
      heap2 == IF ref # NoRef
               THEN [devHeap EXCEPT ![ref] =
                       [@ EXCEPT !.items = items2, !.subtotal = calculateCartTotal(items2)]]
               ELSE devHeap @@ (NewRef(devHeap) :>
                       [sessionId |-> s, items |-> <<newItem>>, subtotal |-> FirstSubtotal(a)])
      store2 == IF ref # NoRef THEN devStore ELSE [devStore EXCEPT ![s] = NewRef(devHeap)]
  IN  /\ Cardinality(HeapItems(heap2)) <= MaxItems
      /\ devHeap' = heap2
      /\ devStore' = store2
      /\ devStorage' = saveToStorage(heap2, store2)
      /\ devCall' = Call("addItem", s, a, 0, 0, "cart", DevNotify(devListeners, heap2, store2))
      /\ UNCHANGED devListeners

\* The cart object that removeItem and updateQuantity put in place of the
\* existing one: { ...existingCart, items: newItems, subtotal, updatedAt }
DevReplace(s, newItems) ==
  LET r == NewRef(devHeap)
      store2 == [devStore EXCEPT ![s] = r]
      heap1 == devHeap @@ (r :> [sessionId |-> devHeap[devStore[s]].sessionId,
                                 items |-> newItems,
                                 subtotal |-> calculateCartTotal(newItems)])
  IN  [store |-> store2, heap |-> Collect(heap1, DevRoots(store2, ordersStore))]

\* removeItem
DevRemoveItem(s, id) ==
  LET next == DevReplace(s, WithoutItem(devHeap[devStore[s]].items, id))
  IN  IF devStore[s] = NoRef
      THEN /\ devCall' = Call("removeItem", s, NoAdd, id, 0, "null", <<>>)
           /\ UNCHANGED <<devHeap, devStore, devListeners, devStorage>>
      ELSE /\ devHeap' = next.heap
           /\ devStore' = next.store
           /\ devStorage' = saveToStorage(next.heap, next.store)
           /\ devCall' = Call("removeItem", s, NoAdd, id, 0, "cart",
                              DevNotify(devListeners, next.heap, next.store))
           /\ UNCHANGED devListeners

\* A map that gives every item the quantity
MapQuantityOfAll(items, id, q) == [i \in 1..Len(items) |-> [items[i] EXCEPT !.quantity = q]]

\* existingCart.items.map((item) => item.id === id ? { ...item, quantity } : item)
MapQuantity(items, id, q) ==
  [i \in 1..Len(items) |-> IF items[i].id = id THEN [items[i] EXCEPT !.quantity = q]
                           ELSE items[i]]

\* updateQuantity
DevUpdateQuantity(s, id, q) ==
  LET items == devHeap[devStore[s]].items
      next == DevReplace(s, IF q <= 0 THEN WithoutItem(items, id) ELSE MapQuantity(items, id, q))
  IN  IF devStore[s] = NoRef
      THEN /\ devCall' = Call("updateQuantity", s, NoAdd, id, q, "null", <<>>)
           /\ UNCHANGED <<devHeap, devStore, devListeners, devStorage>>
      ELSE /\ devHeap' = next.heap
           /\ devStore' = next.store
           /\ devStorage' = saveToStorage(next.heap, next.store)
           /\ devCall' = Call("updateQuantity", s, NoAdd, id, q, "cart",
                              DevNotify(devListeners, next.heap, next.store))
           /\ UNCHANGED devListeners

\* clear
DevClear(s) ==
  LET store2 == [devStore EXCEPT ![s] = NoRef]
      heap2 == Collect(devHeap, DevRoots(store2, ordersStore))
  IN  /\ devStore' = store2
      /\ devHeap' = heap2
      /\ devStorage' = saveToStorage(heap2, store2)
      /\ devCall' = Call("clear", s, NoAdd, 0, 0, "void", DevNotify(devListeners, heap2, store2))
      /\ UNCHANGED devListeners

\* _reset
DevReset ==
  LET store2 == [s \in Sessions |-> NoRef]
      heap2 == Collect(devHeap, DevRoots(store2, ordersStore))
  IN  /\ devStore' = store2
      /\ devHeap' = heap2
      /\ devStorage' = saveToStorage(heap2, store2)
      /\ devCall' = Call("_reset", "none", NoAdd, 0, 0, "void",
                         DevNotify(devListeners, heap2, store2))
      /\ UNCHANGED devListeners

\* The page is loaded again: convex-dev/cart.ts starts with no listeners and
\* with the carts of localStorage, convex-dev/orders.ts with nothing
DevLoad ==
  LET loaded == loadFromStorage(devStorage)
  IN  /\ devStore' = loaded.store
      /\ devHeap' = loaded.heap
      /\ devListeners' = <<>>
      /\ devCall' = Call("load", "none", NoAdd, 0, 0, "void", <<>>)
      /\ ordersStore' = <<>>
      /\ ordersListeners' = <<>>
      /\ ordersCall' = [at |-> calls + 1, op |-> "load", ret |-> 0, notified |-> <<>>]
      /\ UNCHANGED devStorage

\* subscribe
DevSubscribe(cb) ==
  /\ devListeners' = SetAdd(devListeners, cb)
  /\ devCall' = Call("subscribe", cb, NoAdd, 0, 0, "unsubscribe", <<>>)
  /\ UNCHANGED <<devHeap, devStore, devStorage>>

\* the function subscribe returned
DevUnsubscribe(cb) ==
  /\ cb \in Range(devListeners)
  /\ devListeners' = SetDelete(devListeners, cb)
  /\ devCall' = Call("unsubscribe", cb, NoAdd, 0, 0, "void", <<>>)
  /\ UNCHANGED <<devHeap, devStore, devStorage>>

\* ---------------------------------------------------- convex-dev/orders.ts
OrdersOf(store, s) ==
  LET i == FindIndex(store, LAMBDA e : e.sessionId = s)
  IN  IF i = 0 THEN <<>> ELSE store[i].orders

\* A store that keeps the orders of the written session only
OrdersSetReplacing(store, s, orders) == <<[sessionId |-> s, orders |-> orders]>>

\* ordersStore.set(sessionId, sessionOrders): a new key goes last
OrdersSet(store, s, orders) ==
  LET i == FindIndex(store, LAMBDA e : e.sessionId = s)
  IN  IF i = 0 THEN Append(store, [sessionId |-> s, orders |-> orders])
      ELSE [store EXCEPT ![i].orders = orders]

OrderIds == 1 .. MaxOrders

generateOrderId(store) ==
  Min(OrderIds \ {AllOrders(store)[i].id : i \in 1..Len(AllOrders(store))})

\* create, called with the cart that cart.get returned for the session
Create(s, stripe) ==
  LET cart == devHeap[devStore[s]]
      order == [id |-> generateOrderId(ordersStore), sessionId |-> s,
                cartSnapshot |-> devStore[s], status |-> "pending",
                stripeSessionId |-> stripe, subtotal |-> cart.subtotal,
                shippingCost |-> ShippingCost(cart.subtotal), tax |-> Tax(cart.subtotal),
                total |-> cart.subtotal + ShippingCost(cart.subtotal) + Tax(cart.subtotal)]
      store2 == OrdersSet(ordersStore, s, Append(OrdersOf(ordersStore, s), order))
  IN  /\ devStore[s] # NoRef
      /\ Len(AllOrders(ordersStore)) < MaxOrders
      /\ ordersStore' = store2
      /\ ordersCall' = [at |-> calls + 1, op |-> "create", ret |-> order.id,
                        notified |-> notifyListeners(ordersListeners, store2)]
      /\ UNCHANGED ordersListeners

\* The position <<entry, index>> of the first order with the stripe session
\* id, in Map iteration order; <<0, 0>> if there is none
FindByStripe(store, stripe) ==
  LET hits == {ei \in UNION {{<<e, i>> : i \in 1..Len(store[e].orders)} : e \in 1..Len(store)} :
                 store[ei[1]].orders[ei[2]].stripeSessionId = stripe}
  IN  IF hits = {} THEN <<0, 0>>
      ELSE CHOOSE h \in hits : \A g \in hits : h[1] < g[1] \/ (h[1] = g[1] /\ h[2] <= g[2])

\* updateStatus
UpdateStatus(stripe, status) ==
  LET h == FindByStripe(ordersStore, stripe)
      store2 == [ordersStore EXCEPT ![h[1]].orders[h[2]].status = status]
  IN  IF h = <<0, 0>>
      THEN /\ ordersCall' = [at |-> calls + 1, op |-> "updateStatus", ret |-> 0, notified |-> <<>>]
           /\ UNCHANGED <<ordersStore, ordersListeners>>
      ELSE /\ ordersStore' = store2
           /\ ordersCall' = [at |-> calls + 1, op |-> "updateStatus", ret |-> store2[h[1]].orders[h[2]].id,
                             notified |-> notifyListeners(ordersListeners, store2)]
           /\ UNCHANGED ordersListeners

\* _reset
OrdersReset ==
  /\ ordersStore' = <<>>
  /\ ordersCall' = [at |-> calls + 1, op |-> "_reset", ret |-> 0,
                    notified |-> notifyListeners(ordersListeners, <<>>)]
  /\ UNCHANGED ordersListeners

\* What getById and getByStripeSession return when no order matches
NullOrder == [isNull |-> TRUE]

\* getBySession: ordersStore.get(sessionId) || []
getBySession(store, s) == OrdersOf(store, s)

\* getById: the first order with the id, in Map iteration order, or null
getById(store, orderId) ==
  LET all == AllOrders(store)
      i == FindIndex(all, LAMBDA o : o.id = orderId)
  IN  IF i = 0 THEN NullOrder ELSE all[i]

\* subscribe
OrdersSubscribe(cb) ==
  /\ ordersListeners' = SetAdd(ordersListeners, cb)
  /\ ordersCall' = [at |-> calls + 1, op |-> "subscribe", ret |-> 0, notified |-> <<>>]
  /\ UNCHANGED ordersStore

\* the function subscribe returned
OrdersUnsubscribe(cb) ==
  /\ cb \in Range(ordersListeners)
  /\ ordersListeners' = SetDelete(ordersListeners, cb)
  /\ ordersCall' = [at |-> calls + 1, op |-> "unsubscribe", ret |-> 0, notified |-> <<>>]
  /\ UNCHANGED ordersStore

ordersVars == <<ordersStore, ordersListeners, ordersCall>>
devCartVars == <<devHeap, devStore, devListeners, devCall, devStorage>>

\* ============ the ornament, topper and session modules (src/unnamed/part_008,
\* part_005 and part_006)
VARIABLES
  ornamentsStore,    \* ornamentsStore: the ornaments, in order
  ornamentListeners, \* listeners of the ornament module
  ornamentCall,      \* its last call
  topperStore,       \* topperStore: the topper or NoTopper
  topperListeners,   \* listeners of the topper module
  topperCall,        \* its last call
  sessionStore,      \* sessionStore: the session or NoSession
  treeConfigStore,   \* treeConfigStore
  sessionListeners,  \* listeners of the session module
  sessionCall        \* its last call

ornamentVars == <<ornamentsStore, ornamentListeners, ornamentCall>>
topperVars == <<topperStore, topperListeners, topperCall>>
sessionVars == <<sessionStore, treeConfigStore, sessionListeners, sessionCall>>
treeVars == <<ornamentVars, topperVars, sessionVars>>

\* The record of a call of one of these modules
TreeCall(op, ret, notified) == [at |-> calls + 1, op |-> op, ret |-> ret, notified |-> notified]
NoTreeCall == [at |-> 0, op |-> "none", ret |-> "void", notified |-> <<>>]

\* ---------------------------------------------------------------- ornaments
OrnamentIds == 1 .. (MaxOrnaments + 1)
Colors == {"red", "gold"}
OrnamentArgs ==
  { [type |-> "sphere", color |-> "red", position |-> <<1, 2, 3>>, scale |-> 1],
    [type |-> "cube", color |-> "gold", position |-> <<0, 1, 0>>, scale |-> 2] }

generateOrnamentId(store) == Min(OrnamentIds \ {store[i].id : i \in 1..Len(store)})

\* add
OrnamentAdd(a) ==
  LET ornament == [id |-> generateOrnamentId(ornamentsStore), type |-> a.type,
                   color |-> a.color, position |-> a.position, scale |-> a.scale]
      store2 == Append(ornamentsStore, ornament)
  IN  /\ Len(ornamentsStore) < MaxOrnaments
      /\ ornamentsStore' = store2
      /\ ornamentCall' = TreeCall("add", "ornament", notifyListeners(ornamentListeners, store2))
      /\ UNCHANGED ornamentListeners

\* update, with a colour as the update
OrnamentUpdate(id, color) ==
  LET index == FindIndex(ornamentsStore, LAMBDA o : o.id = id)
      store2 == [ornamentsStore EXCEPT ![index].color = color]
  IN  IF index = 0
      THEN /\ ornamentCall' = TreeCall("update", "false", <<>>)
           /\ UNCHANGED <<ornamentsStore, ornamentListeners>>
      ELSE /\ ornamentsStore' = store2
           /\ ornamentCall' = TreeCall("update", "true",
                                       notifyListeners(ornamentListeners, store2))
           /\ UNCHANGED ornamentListeners

\* ornamentsStore.splice(index, 1)
Splice(store, index) == [i \in 1..(Len(store) - 1) |-> IF i < index THEN store[i] ELSE store[i + 1]]

\* remove
OrnamentRemove(id) ==
  LET index == FindIndex(ornamentsStore, LAMBDA o : o.id = id)
      store2 == Splice(ornamentsStore, index)
  IN  IF index = 0
      THEN /\ ornamentCall' = TreeCall("remove", "false", <<>>)
           /\ UNCHANGED <<ornamentsStore, ornamentListeners>>
      ELSE /\ ornamentsStore' = store2
           /\ ornamentCall' = TreeCall("remove", "true",
                                       notifyListeners(ornamentListeners, store2))
           /\ UNCHANGED ornamentListeners

\* clearAll and _reset
OrnamentClearAll(op) ==
  /\ ornamentsStore' = <<>>
  /\ ornamentCall' = TreeCall(op, "void", notifyListeners(ornamentListeners, <<>>))
  /\ UNCHANGED ornamentListeners

\* subscribe
OrnamentSubscribe(cb) ==
  /\ ornamentListeners' = SetAdd(ornamentListeners, cb)
  /\ ornamentCall' = TreeCall("subscribe", "unsubscribe", <<>>)
  /\ UNCHANGED ornamentsStore

\* the function subscribe returned
OrnamentUnsubscribe(cb) ==
  /\ cb \in Range(ornamentListeners)
  /\ ornamentListeners' = SetDelete(ornamentListeners, cb)
  /\ ornamentCall' = TreeCall("unsubscribe", "void", <<>>)
  /\ UNCHANGED ornamentsStore

\* ------------------------------------------------------------------- topper
NoTopper == [id |-> 0, type |-> "null", color |-> "null", scale |-> 0, glow |-> FALSE]
TopperIds == 1 .. 2
TopperArgs ==
  { [type |-> "star", color |-> "gold", scale |-> 1, glow |-> TRUE],
    [type |-> "angel", color |-> "red", scale |-> 1, glow |-> FALSE] }

\* generateId of the topper module: an id other than the current one
generateTopperId(topper) == Min(TopperIds \ {topper.id})

\* set(args)
TopperSet(a) ==
  LET topper == [id |-> generateTopperId(topperStore), type |-> a.type, color |-> a.color,
                 scale |-> a.scale, glow |-> a.glow]
  IN  /\ topperStore' = topper
      /\ topperCall' = TreeCall("set", "topper", notifyListeners(topperListeners, topper))
      /\ UNCHANGED topperListeners

\* set(null), remove and _reset
TopperRemove(op) ==
  /\ topperStore' = NoTopper
  /\ topperCall' = TreeCall(op, IF op = "set" THEN "null" ELSE "void",
                            notifyListeners(topperListeners, NoTopper))
  /\ UNCHANGED topperListeners

\* subscribe
TopperSubscribe(cb) ==
  /\ topperListeners' = SetAdd(topperListeners, cb)
  /\ topperCall' = TreeCall("subscribe", "unsubscribe", <<>>)
  /\ UNCHANGED topperStore

\* the function subscribe returned
TopperUnsubscribe(cb) ==
  /\ cb \in Range(topperListeners)
  /\ topperListeners' = SetDelete(topperListeners, cb)
  /\ topperCall' = TreeCall("unsubscribe", "void", <<>>)
  /\ UNCHANGED topperStore

\* ----------------------------------------------------------------- sessions
DefaultTreeConfig ==
  [seed |-> 12345, height |-> 6, radius |-> "2.5", tiers |-> 7, color |-> "#1a472a",
   snowAmount |-> "0.3"]

NoSession == [id |-> 0, name |-> "null", ownerId |-> "null", treeConfig |-> DefaultTreeConfig,
              isPublic |-> FALSE, inviteCode |-> Undefined]

SessionNames == {"family tree"}
ConfigUpdates == { [color |-> "#0b6623"], [snowAmount |-> "0.8", tiers |-> 5] }
InviteCodes == {"AB12CD", "ZZ99ZZ"}
TreeSessionIds == 1 .. 2

\* { ...treeConfigStore, ...args.updates }
Merge(config, updates) ==
  [k \in DOMAIN config |-> IF k \in DOMAIN updates THEN updates[k] ELSE config[k]]

\* What a callback of the session module can read
SessionView(session, config) == [session |-> session, treeConfig |-> config]

\* create
SessionCreate(name) ==
  LET session == [id |-> Min(TreeSessionIds \ {sessionStore.id}), name |-> name,
                  ownerId |-> "local-user", treeConfig |-> treeConfigStore,
                  isPublic |-> FALSE, inviteCode |-> Undefined]
  IN  /\ sessionStore' = session
      /\ sessionCall' = TreeCall("create", "session",
                                 notifyListeners(sessionListeners,
                                                 SessionView(session, treeConfigStore)))
      /\ UNCHANGED <<treeConfigStore, sessionListeners>>

\* updateTreeConfig
UpdateTreeConfig(updates) ==
  LET config == Merge(treeConfigStore, updates)
      session == IF sessionStore # NoSession
                 THEN [sessionStore EXCEPT !.treeConfig = config]
                 ELSE sessionStore
  IN  /\ treeConfigStore' = config
      /\ sessionStore' = session
      /\ sessionCall' = TreeCall("updateTreeConfig", "config",
                                 notifyListeners(sessionListeners, SessionView(session, config)))
      /\ UNCHANGED sessionListeners

\* generateInviteCode
GenerateInviteCode(code) ==
  LET session == [sessionStore EXCEPT !.inviteCode = code]
  IN  IF sessionStore # NoSession
      THEN /\ sessionStore' = session
           /\ sessionCall' = TreeCall("generateInviteCode", code,
                                      notifyListeners(sessionListeners,
                                                      SessionView(session, treeConfigStore)))
           /\ UNCHANGED <<treeConfigStore, sessionListeners>>
      ELSE /\ sessionCall' = TreeCall("generateInviteCode", code, <<>>)
           /\ UNCHANGED <<sessionStore, treeConfigStore, sessionListeners>>

\* _reset
SessionReset ==
  /\ sessionStore' = NoSession
  /\ treeConfigStore' = DefaultTreeConfig
  /\ sessionCall' = TreeCall("_reset", "void",
                             notifyListeners(sessionListeners,
                                             SessionView(NoSession, DefaultTreeConfig)))
  /\ UNCHANGED sessionListeners

\* subscribe
SessionSubscribe(cb) ==
  /\ sessionListeners' = SetAdd(sessionListeners, cb)
  /\ sessionCall' = TreeCall("subscribe", "unsubscribe", <<>>)
  /\ UNCHANGED <<sessionStore, treeConfigStore>>

\* the function subscribe returned
SessionUnsubscribe(cb) ==
  /\ cb \in Range(sessionListeners)
  /\ sessionListeners' = SetDelete(sessionListeners, cb)
  /\ sessionCall' = TreeCall("unsubscribe", "void", <<>>)
  /\ UNCHANGED <<sessionStore, treeConfigStore>>

InitTree ==
  /\ ornamentsStore = <<>> /\ ornamentListeners = <<>> /\ ornamentCall = NoTreeCall
  /\ topperStore = NoTopper /\ topperListeners = <<>> /\ topperCall = NoTreeCall
  /\ sessionStore = NoSession /\ treeConfigStore = DefaultTreeConfig
  /\ sessionListeners = <<>> /\ sessionCall = NoTreeCall

\* ============================================ components/CheckoutForm.tsx
VARIABLES
  checkoutForm     \* the amounts the checkout form shows

NoQuote == [subtotal |-> 0, shippingCost |-> 0, tax |-> 0, total |-> 0, shown |-> FALSE]

\* const shippingCost = cart.subtotal >= 50000 ? 0 : 1999
FormShippingCost(subtotal) == IF subtotal >= 50000 THEN 0 ELSE 1999

\* const tax = Math.round(cart.subtotal * taxRate)
FormTax(subtotal) == (subtotal * 8 + 50) \div 100

InitCheckoutForm == checkoutForm = NoQuote

\* The App renders the form for cartStore.cart
RenderCheckoutForm ==
  LET ref == cartStore[LocalSession]
      subtotal == cartHeap[ref].subtotal
  IN  /\ ref # NoRef
      /\ checkoutForm' = [subtotal |-> subtotal, shippingCost |-> FormShippingCost(subtotal),
                          tax |-> FormTax(subtotal),
                          total |-> subtotal + FormShippingCost(subtotal) + FormTax(subtotal),
                          shown |-> TRUE]
      /\ UNCHANGED cartVars

\* Ornaments priced so that two of them come to about 50000
CheckoutPrices == (25000 - PriceSpread) .. (25000 + PriceSpread)
PricedOrnament(price) ==
  AddArg("ornament", "orn-sphere", 1, price, Customization("red", <<1, 2, 3>>))

\* ============================================== convex-dev/auth.ts
\* Strings are sequences of characters, so that their length, their prefixes
\* and their characters are what the code tests.
VARIABLES
  usersStore,     \* usersStore: the users, in insertion order of the Map
  sessionsStore,  \* sessionsStore: the sessions, in insertion order of the Map
  authListeners,  \* authListeners
  authStorage,    \* localStorage under the two keys of the module
  authCall,       \* the last call that returned
  pending,        \* calls suspended at their await, in the order they resume
  now,            \* Date.now()
  nextUserId,     \* number of the next generateId()
  nextToken       \* number of the next generateToken()

authVars == <<usersStore, sessionsStore, authListeners, authStorage, authCall, pending, now,
              nextUserId, nextToken>>

MinPasswordLength == 8
SessionLifetime == 7 * 24 * 60 * 60 * 1000

EmailA == <<"a", "@", "x", ".", "i", "o">>
EmailB == <<"b", "@", "x", ".", "i", "o">>
EmailNoDot == <<"a", "@", "x">>
Emails == {EmailA, EmailB, EmailNoDot}

PasswordLong == <<"p", "a", "s", "s", "_", "w", "o", "r", "d">>
PasswordEight == <<"p", "a", "s", "s", "w", "o", "r", "d">>
PasswordShort == <<"p", "a", "s", "s">>
Passwords == {PasswordLong, PasswordEight, PasswordShort}

Names == {"Ann"}
\* Time that passes between two steps: a millisecond, or more than a session lasts
Delays == {1, SessionLifetime + 1}
Whitespace == {" "}

\* String.prototype.startsWith
StartsWith(str, prefix) ==
  Len(prefix) <= Len(str) /\ SubSeq(str, 1, Len(prefix)) = prefix

\* The decimal digits of a number, as a template literal prints it
RECURSIVE Digits(_)
Digits(n) ==
  LET digit == <<"0", "1", "2", "3", "4", "5", "6", "7", "8", "9">>[(n % 10) + 1]
  IN  IF n < 10 THEN <<digit>> ELSE Digits(n \div 10) \o <<digit>>

Hashed == <<"h", "a", "s", "h", "e", "d", "_">>

\* hashPassword: `hashed_${password}_${Date.now()}`
hashPassword(password, time) == Hashed \o password \o <<"_">> \o Digits(time)

\* verifyPassword: hash.startsWith(`hashed_${password}_`)
verifyPassword(password, hash) == StartsWith(hash, Hashed \o password \o <<"_">>)

\* isValidEmail: /^[^\s@]+@[^\s@]+\.[^\s@]+$/
isValidEmail(email) ==
  \E at \in 1..Len(email), dot \in 1..Len(email) :
    /\ email[at] = "@" /\ email[dot] = "."
    /\ 1 < at /\ at + 1 < dot /\ dot < Len(email)
    /\ \A i \in (1..Len(email)) \ {at} : email[i] \notin (Whitespace \cup {"@"})

\* isValidPassword
isValidPassword(password) ==
  IF Len(password) < MinPasswordLength
  THEN [valid |-> FALSE, error |-> "Password must be at least 8 characters"]
  ELSE [valid |-> TRUE, error |-> Undefined]

\* The user as stored, hash included
WholeUser(user) == user

\* const { passwordHash: _, ...safeUser } = user
SafeUser(user) ==
  [id |-> user.id, email |-> user.email, name |-> user.name, createdAt |-> user.createdAt,
   updatedAt |-> user.updatedAt]

Failure(error) == [success |-> FALSE, error |-> error]
Success(token, user) == [success |-> TRUE, token |-> token, user |-> SafeUser(user)]

\* The record of a call that returned
AuthCall(op, email, password, token, ret, notified) ==
  [at |-> calls + 1, op |-> op, email |-> email, password |-> password, token |-> token,
   ret |-> ret, notified |-> notified]
NoAuthCall == [at |-> 0, op |-> "none", email |-> <<>>, password |-> <<>>, token |-> 0,
               ret |-> "void", notified |-> <<>>]

\* Array.from(usersStore.values()).find(u => u.email === email), 0 for undefined
FindUserByEmail(users, email) == FindIndex(users, LAMBDA u : u.email = email)

\* What a callback of the module can read
AuthView(users, sessions) == [users |-> users, sessions |-> sessions]

\* saveToStorage: both maps, as JSON objects keyed as the maps are
AuthSaved(users, sessions) == [users |-> users, sessions |-> sessions]
AuthStorageEmpty == [users |-> Undefined, sessions |-> Undefined]

\* const session: AuthSession = { id: `session_${Date.now()}`, ... }
NewSession(userId, token, time) ==
  [id |-> time, userId |-> userId, token |-> token, expiresAt |-> time + SessionLifetime,
   createdAt |-> time]

InitAuth ==
  /\ usersStore = <<>>
  /\ sessionsStore = <<>>
  /\ authListeners = <<>>
  /\ authStorage = AuthStorageEmpty
  /\ authCall = NoAuthCall
  /\ pending = <<>>
  /\ now = 0
  /\ nextUserId = 1
  /\ nextToken = 1

\* A call that returns without touching the stores
AuthReturn(op, email, password, token, ret) ==
  /\ authCall' = AuthCall(op, email, password, token, ret, <<>>)
  /\ UNCHANGED <<usersStore, sessionsStore, authListeners, authStorage, now, nextUserId,
                 nextToken>>

\* signup, up to its await of hashPassword
Signup(email, password, name) ==
  IF ~isValidEmail(email)
  THEN AuthReturn("signup", email, password, 0, Failure("Invalid email format"))
       /\ UNCHANGED pending
  ELSE IF ~isValidPassword(password).valid
  THEN AuthReturn("signup", email, password, 0, Failure(isValidPassword(password).error))
       /\ UNCHANGED pending
  ELSE IF FindUserByEmail(usersStore, email) # 0
  THEN AuthReturn("signup", email, password, 0, Failure("Email already registered"))
       /\ UNCHANGED pending
  ELSE /\ Len(pending) < MaxPending
       /\ pending' = Append(pending, [op |-> "signup", email |-> email, password |-> password,
                                      name |-> name,
                                      passwordHash |-> hashPassword(password, now)])
       /\ UNCHANGED <<usersStore, sessionsStore, authListeners, authStorage, authCall, now,
                      nextUserId, nextToken>>

\* signup, from its await to its return
SignupResume ==
  /\ pending # <<>>
  /\ Head(pending).op = "signup"
  /\ LET c == Head(pending)
         user == [id |-> nextUserId, email |-> c.email, passwordHash |-> c.passwordHash,
                  name |-> c.name, createdAt |-> now, updatedAt |-> now]
         users2 == Append(usersStore, user)
         sessions2 == Append(sessionsStore, NewSession(nextUserId, nextToken, now))
     IN  /\ usersStore' = users2
         /\ sessionsStore' = sessions2
         /\ authStorage' = AuthSaved(users2, sessions2)
         /\ authCall' = AuthCall("signup", c.email, c.password, 0, Success(nextToken, user),
                                 notifyListeners(authListeners, AuthView(users2, sessions2)))
         /\ nextUserId' = nextUserId + 1
         /\ nextToken' = nextToken + 1
         /\ pending' = Tail(pending)
         /\ UNCHANGED <<authListeners, now>>

\* login, up to its await of verifyPassword
Login(email, password) ==
  LET index == FindUserByEmail(usersStore, email)
  IN  IF index = 0
      THEN AuthReturn("login", email, password, 0, Failure("Invalid email or password"))
           /\ UNCHANGED pending
      ELSE /\ Len(pending) < MaxPending
           /\ pending' = Append(pending, [op |-> "login", email |-> email,
                                          password |-> password, user |-> usersStore[index],
                                          validPassword |->
                                            verifyPassword(password,
                                                           usersStore[index].passwordHash)])
           /\ UNCHANGED <<usersStore, sessionsStore, authListeners, authStorage, authCall, now,
                          nextUserId, nextToken>>

\* login, from its await to its return
LoginResume ==
  /\ pending # <<>>
  /\ Head(pending).op = "login"
  /\ LET c == Head(pending)
         sessions2 == Append(sessionsStore, NewSession(c.user.id, nextToken, now))
     IN  IF ~c.validPassword
         THEN /\ AuthReturn("login", c.email, c.password, 0,
                            Failure("Invalid email or password"))
              /\ pending' = Tail(pending)
         ELSE /\ sessionsStore' = sessions2
              /\ authStorage' = AuthSaved(usersStore, sessions2)
              /\ authCall' = AuthCall("login", c.email, c.password, 0,
                                      Success(nextToken, c.user),
                                      notifyListeners(authListeners,
                                                      AuthView(usersStore, sessions2)))
              /\ nextToken' = nextToken + 1
              /\ pending' = Tail(pending)
              /\ UNCHANGED <<usersStore, authListeners, now, nextUserId>>

\* A logout that ends every session of the token's user
LogoutEverywhere(token) ==
  LET index == FindIndex(sessionsStore, LAMBDA x : x.token = token)
      sessions2 == IF index = 0 THEN sessionsStore
                   ELSE Filter(sessionsStore,
                               LAMBDA x : x.userId # sessionsStore[index].userId)
  IN  /\ sessionsStore' = sessions2
      /\ authStorage' = AuthSaved(usersStore, sessions2)
      /\ authCall' = AuthCall("logout", <<>>, <<>>, token, "void",
                              notifyListeners(authListeners, AuthView(usersStore, sessions2)))
      /\ UNCHANGED <<usersStore, authListeners, pending, now, nextUserId, nextToken>>

\* logout
Logout(token) ==
  LET sessions2 == Filter(sessionsStore, LAMBDA x : x.token # token)
  IN  /\ sessionsStore' = sessions2
      /\ authStorage' = AuthSaved(usersStore, sessions2)
      /\ authCall' = AuthCall("logout", <<>>, <<>>, token, "void",
                              notifyListeners(authListeners, AuthView(usersStore, sessions2)))
      /\ UNCHANGED <<usersStore, authListeners, pending, now, nextUserId, nextToken>>

\* return null, where a user is returned otherwise
NullUser == [isNull |-> TRUE]

\* validateSession
ValidateSession(token) ==
  LET index == FindIndex(sessionsStore, LAMBDA x : x.token = token)
      session == sessionsStore[index]
      sessions2 == Filter(sessionsStore, LAMBDA x : x.token # token)
      userIndex == FindIndex(usersStore, LAMBDA u : u.id = session.userId)
  IN  IF index = 0
      THEN AuthReturn("validateSession", <<>>, <<>>, token, NullUser) /\ UNCHANGED pending
      ELSE IF session.expiresAt < now
      THEN /\ sessionsStore' = sessions2
           /\ authStorage' = AuthSaved(usersStore, sessions2)
           /\ authCall' = AuthCall("validateSession", <<>>, <<>>, token, NullUser,
                                   notifyListeners(authListeners,
                                                   AuthView(usersStore, sessions2)))
           /\ UNCHANGED <<usersStore, authListeners, pending, now, nextUserId, nextToken>>
      ELSE IF userIndex = 0
      THEN AuthReturn("validateSession", <<>>, <<>>, token, NullUser) /\ UNCHANGED pending
      ELSE AuthReturn("validateSession", <<>>, <<>>, token, SafeUser(usersStore[userIndex]))
           /\ UNCHANGED pending

\* getCurrentUser: return validateSession(args)
GetCurrentUser(token) == ValidateSession(token)

\* _getAllUsers
GetAllUsers ==
  AuthReturn("_getAllUsers", <<>>, <<>>, 0,
             [i \in 1..Len(usersStore) |-> SafeUser(usersStore[i])])
  /\ UNCHANGED pending

\* A User object is known by its id: the users Map and the calls suspended at
\* an await hold the same object, so an assignment to one of its fields shows
\* in all of them
UsersWith(users, id, Change(_)) ==
  [i \in 1..Len(users) |-> IF users[i].id = id THEN Change(users[i]) ELSE users[i]]

PendingWith(queue, id, Change(_)) ==
  [i \in 1..Len(queue) |->
     IF "user" \in DOMAIN queue[i] /\ queue[i].user.id = id
     THEN [queue[i] EXCEPT !.user = Change(queue[i].user)]
     ELSE queue[i]]

\* const session = sessionsStore.get(args.token);
\* if (!session || session.expiresAt < Date.now()) ...
Authenticated(token) ==
  \E i \in 1..Len(sessionsStore) :
    sessionsStore[i].token = token /\ ~(sessionsStore[i].expiresAt < now)

\* usersStore.get(session.userId), 0 for undefined
SessionUserIndex(token) ==
  LET session == sessionsStore[FindIndex(sessionsStore, LAMBDA x : x.token = token)]
  IN  FindIndex(usersStore, LAMBDA u : u.id = session.userId)

ProfileNames == {"Bea", Undefined}

\* updateProfile
UpdateProfile(token, name) ==
  IF ~Authenticated(token)
  THEN AuthReturn("updateProfile", <<>>, <<>>, token, Failure("Not authenticated"))
       /\ UNCHANGED pending
  ELSE IF SessionUserIndex(token) = 0
  THEN AuthReturn("updateProfile", <<>>, <<>>, token, Failure("User not found"))
       /\ UNCHANGED pending
  ELSE LET user == usersStore[SessionUserIndex(token)]
           user2 == [user EXCEPT !.name = IF name # Undefined THEN name ELSE @,
                                 !.updatedAt = now]
           users2 == UsersWith(usersStore, user.id, LAMBDA u : user2)
       IN  /\ usersStore' = users2
           /\ pending' = PendingWith(pending, user.id, LAMBDA u : user2)
           /\ authStorage' = AuthSaved(users2, sessionsStore)
           /\ authCall' = AuthCall("updateProfile", <<>>, <<>>, token,
                                   [success |-> TRUE, user |-> SafeUser(user2)],
                                   notifyListeners(authListeners,
                                                   AuthView(users2, sessionsStore)))
           /\ UNCHANGED <<sessionsStore, authListeners, now, nextUserId, nextToken>>

NewPasswords == {PasswordEight, PasswordShort}

\* changePassword, up to its await of verifyPassword
ChangePassword(token, currentPassword, newPassword) ==
  IF ~Authenticated(token)
  THEN AuthReturn("changePassword", <<>>, currentPassword, token,
                  Failure("Not authenticated"))
       /\ UNCHANGED pending
  ELSE IF SessionUserIndex(token) = 0
  THEN AuthReturn("changePassword", <<>>, currentPassword, token, Failure("User not found"))
       /\ UNCHANGED pending
  ELSE LET user == usersStore[SessionUserIndex(token)]
       IN  /\ Len(pending) < MaxPending
           /\ pending' = Append(pending,
                                [op |-> "changePassword", awaiting |-> "verifyPassword",
                                 token |-> token, password |-> currentPassword,
                                 newPassword |-> newPassword, user |-> user,
                                 validPassword |->
                                   verifyPassword(currentPassword, user.passwordHash),
                                 passwordHash |-> <<>>])
           /\ UNCHANGED <<usersStore, sessionsStore, authListeners, authStorage, authCall,
                          now, nextUserId, nextToken>>

\* changePassword, from its await of verifyPassword to its await of hashPassword
ChangePasswordVerified ==
  /\ pending # <<>>
  /\ Head(pending).op = "changePassword"
  /\ Head(pending).awaiting = "verifyPassword"
  /\ LET c == Head(pending)
     IN  IF ~c.validPassword
         THEN /\ AuthReturn("changePassword", <<>>, c.password, c.token,
                            Failure("Current password is incorrect"))
              /\ pending' = Tail(pending)
         ELSE IF ~isValidPassword(c.newPassword).valid
         THEN /\ AuthReturn("changePassword", <<>>, c.password, c.token,
                            Failure(isValidPassword(c.newPassword).error))
              /\ pending' = Tail(pending)
         ELSE /\ pending' = Append(Tail(pending),
                                   [c EXCEPT !.awaiting = "hashPassword",
                                             !.passwordHash =
                                               hashPassword(c.newPassword, now)])
              /\ UNCHANGED <<usersStore, sessionsStore, authListeners, authStorage,
                             authCall, now, nextUserId, nextToken>>

\* changePassword, from its await of hashPassword to its return
ChangePasswordResume ==
  /\ pending # <<>>
  /\ Head(pending).op = "changePassword"
  /\ Head(pending).awaiting = "hashPassword"
  /\ LET c == Head(pending)
         user2 == [c.user EXCEPT !.passwordHash = c.passwordHash, !.updatedAt = now]
         users2 == IF \E i \in 1..Len(usersStore) : usersStore[i].id = user2.id
                   THEN UsersWith(usersStore, user2.id, LAMBDA u : user2)
                   ELSE Append(usersStore, user2)
     IN  /\ usersStore' = users2
         /\ pending' = PendingWith(Tail(pending), user2.id, LAMBDA u : user2)
         /\ authStorage' = AuthSaved(users2, sessionsStore)
         /\ authCall' = AuthCall("changePassword", <<>>, c.password, c.token,
                                 [success |-> TRUE],
                                 notifyListeners(authListeners,
                                                 AuthView(users2, sessionsStore)))
         /\ UNCHANGED <<sessionsStore, authListeners, now, nextUserId, nextToken>>

\* subscribe
AuthSubscribe(cb) ==
  /\ authListeners' = SetAdd(authListeners, cb)
  /\ authCall' = AuthCall("subscribe", <<>>, <<>>, 0, "unsubscribe", <<>>)
  /\ UNCHANGED <<usersStore, sessionsStore, authStorage, pending, now, nextUserId, nextToken>>

\* the function subscribe returned
AuthUnsubscribe(cb) ==
  /\ cb \in Range(authListeners)
  /\ authListeners' = SetDelete(authListeners, cb)
  /\ authCall' = AuthCall("unsubscribe", <<>>, <<>>, 0, "void", <<>>)
  /\ UNCHANGED <<usersStore, sessionsStore, authStorage, pending, now, nextUserId, nextToken>>

\* _reset
AuthReset ==
  /\ usersStore' = <<>>
  /\ sessionsStore' = <<>>
  /\ authStorage' = AuthSaved(<<>>, <<>>)
  /\ authCall' = AuthCall("_reset", <<>>, <<>>, 0, "void",
                          notifyListeners(authListeners, AuthView(<<>>, <<>>)))
  /\ UNCHANGED <<authListeners, pending, now, nextUserId, nextToken>>

\* Time passes
Advance(delay) ==
  /\ now + delay <= MaxLifetimes * (SessionLifetime + 1)
  /\ now' = now + delay
  /\ UNCHANGED <<usersStore, sessionsStore, authListeners, authStorage, authCall, pending,
                 nextUserId, nextToken>>

\* ======================================================== specifications
\* The callbacks for which a function returned by subscribe of convex/cart.ts
\* has been called: a history of the run, which the program does not keep
VARIABLE unsubscribed

vars == <<scope, calls, cartVars, devVars, treeVars, authVars, checkoutForm, unsubscribed>>

\* One more call, within the bound of the scope
CallBound ==
  IF scope \in {"convex", "checkout", "lockstep"} THEN MaxCalls
  ELSE IF scope = "convex-dev" THEN MaxDevCalls
  ELSE IF scope = "auth" THEN MaxAuthSteps
  ELSE IF scope = "orders" THEN MaxOrderCalls
  ELSE MaxTreeCalls

Tick == calls < CallBound /\ calls' = calls + 1 /\ UNCHANGED scope

InitAll ==
  calls = 0 /\ unsubscribed = {} /\ InitCart /\ InitDev /\ InitTree /\ InitAuth /\ InitCheckoutForm

\* A call of convex/cart.ts or of the App that uses it
CartStep == scope = "convex" /\ Tick /\ UNCHANGED <<devVars, treeVars, authVars, checkoutForm>>

NextCart ==
  \/ \E s \in Sessions : CartStep /\ Get(s) /\ UNCHANGED unsubscribed
  \/ \E s \in Sessions, a \in AddArgs : CartStep /\ AddItem(s, a) /\ UNCHANGED unsubscribed
  \/ \E s \in Sessions, id \in ItemIds :
       CartStep /\ RemoveItem(s, id) /\ UNCHANGED unsubscribed
  \/ \E s \in Sessions, id \in ItemIds, q \in Quantities :
       CartStep /\ UpdateQuantity(s, id, q) /\ UNCHANGED unsubscribed
  \/ \E s \in Sessions : CartStep /\ Clear(s) /\ UNCHANGED unsubscribed
  \/ CartStep /\ Reset /\ UNCHANGED unsubscribed
  \/ \E cb \in Callbacks : CartStep /\ Subscribe(cb) /\ UNCHANGED unsubscribed
  \/ \E cb \in Callbacks :
       CartStep /\ Unsubscribe(cb) /\ unsubscribed' = unsubscribed \cup {cb}
  \/ CartStep /\ HandleCheckout /\ UNCHANGED unsubscribed

\* A call of convex-dev/cart.ts
DevStep == scope = "convex-dev" /\ Tick /\ UNCHANGED <<cartVars, ordersVars, treeVars, authVars, checkoutForm, unsubscribed>>

NextDevCart ==
  \/ \E s \in Sessions : DevStep /\ DevGet(s)
  \/ \E s \in Sessions, a \in AddArgs : DevStep /\ DevAddItem(s, a)
  \/ \E s \in Sessions, id \in ItemIds : DevStep /\ DevRemoveItem(s, id)
  \/ \E s \in Sessions, id \in ItemIds, q \in Quantities : DevStep /\ DevUpdateQuantity(s, id, q)
  \/ \E s \in Sessions : DevStep /\ DevClear(s)
  \/ DevStep /\ DevReset
  \/ \E cb \in Callbacks : DevStep /\ DevSubscribe(cb)
  \/ \E cb \in Callbacks : DevStep /\ DevUnsubscribe(cb)

\* A call of convex-dev/orders.ts; its reset drops the snapshots nothing holds
OrdersStep == scope = "convex-dev" /\ Tick /\ UNCHANGED <<cartVars, treeVars, authVars, checkoutForm, unsubscribed>>

NextOrders ==
  \/ \E s \in Sessions, stripe \in StripeIds :
       OrdersStep /\ Create(s, stripe) /\ UNCHANGED devCartVars
  \/ \E stripe \in StripeIds, status \in Statuses :
       OrdersStep /\ UpdateStatus(stripe, status) /\ UNCHANGED devCartVars
  \/ /\ OrdersStep
     /\ OrdersReset
     /\ devHeap' = Collect(devHeap, Range(devStore))
     /\ UNCHANGED <<devStore, devListeners, devCall, devStorage>>
  \/ \E cb \in Callbacks : OrdersStep /\ OrdersSubscribe(cb) /\ UNCHANGED devCartVars
  \/ \E cb \in Callbacks : OrdersStep /\ OrdersUnsubscribe(cb) /\ UNCHANGED devCartVars

NextShop == NextCart \/ NextDevCart \/ NextOrders

InitShop == scope \in {"convex", "convex-dev"} /\ InitAll

\* The two cart modules, each with its order handling, one of them per run
SpecShop == InitShop /\ [][NextShop]_vars

\* A call of the ornament module
OrnamentStep ==
  scope = "ornaments" /\ Tick /\ UNCHANGED <<cartVars, devVars, topperVars, sessionVars, authVars, checkoutForm, unsubscribed>>

NextOrnaments ==
  \/ \E a \in OrnamentArgs : OrnamentStep /\ OrnamentAdd(a)
  \/ \E id \in OrnamentIds, c \in Colors : OrnamentStep /\ OrnamentUpdate(id, c)
  \/ \E id \in OrnamentIds : OrnamentStep /\ OrnamentRemove(id)
  \/ \E op \in {"clearAll", "_reset"} : OrnamentStep /\ OrnamentClearAll(op)
  \/ \E cb \in Callbacks : OrnamentStep /\ OrnamentSubscribe(cb)
  \/ \E cb \in Callbacks : OrnamentStep /\ OrnamentUnsubscribe(cb)

\* A call of the topper module
TopperStep ==
  scope = "topper" /\ Tick /\ UNCHANGED <<cartVars, devVars, ornamentVars, sessionVars, authVars, checkoutForm, unsubscribed>>

NextTopper ==
  \/ \E a \in TopperArgs : TopperStep /\ TopperSet(a)
  \/ \E op \in {"set", "remove", "_reset"} : TopperStep /\ TopperRemove(op)
  \/ \E cb \in Callbacks : TopperStep /\ TopperSubscribe(cb)
  \/ \E cb \in Callbacks : TopperStep /\ TopperUnsubscribe(cb)

\* A call of the session module
SessionStep ==
  scope = "sessions" /\ Tick /\ UNCHANGED <<cartVars, devVars, ornamentVars, topperVars, authVars, checkoutForm, unsubscribed>>

NextSessions ==
  \/ \E name \in SessionNames : SessionStep /\ SessionCreate(name)
  \/ \E u \in ConfigUpdates : SessionStep /\ UpdateTreeConfig(u)
  \/ \E code \in InviteCodes : SessionStep /\ GenerateInviteCode(code)
  \/ SessionStep /\ SessionReset
  \/ \E cb \in Callbacks : SessionStep /\ SessionSubscribe(cb)
  \/ \E cb \in Callbacks : SessionStep /\ SessionUnsubscribe(cb)

Init == scope \in {"convex", "convex-dev", "ornaments", "topper", "sessions"} /\ InitAll

Next == NextShop \/ NextOrnaments \/ NextTopper \/ NextSessions

\* The store modules; they share no state, and a run exercises one of them
Spec == Init /\ [][Next]_vars

\* A segment of a call of convex-dev/auth.ts, or time passing
AuthStep == scope = "auth" /\ Tick /\ UNCHANGED <<cartVars, devVars, treeVars, checkoutForm, unsubscribed>>

NextAuth ==
  \/ \E email \in Emails, password \in Passwords, name \in Names :
       AuthStep /\ Signup(email, password, name)
  \/ AuthStep /\ SignupResume
  \/ \E email \in Emails, password \in Passwords : AuthStep /\ Login(email, password)
  \/ AuthStep /\ LoginResume
  \/ \E token \in 0..(nextToken - 1) : AuthStep /\ Logout(token)
  \/ \E token \in 0..(nextToken - 1) : AuthStep /\ ValidateSession(token)
  \/ \E token \in 0..(nextToken - 1) : AuthStep /\ GetCurrentUser(token)
  \/ AuthStep /\ GetAllUsers
  \/ \E token \in 0..(nextToken - 1), name \in ProfileNames :
       AuthStep /\ UpdateProfile(token, name)
  \/ \E token \in 0..(nextToken - 1), password \in Passwords, newPassword \in NewPasswords :
       AuthStep /\ ChangePassword(token, password, newPassword)
  \/ AuthStep /\ ChangePasswordVerified
  \/ AuthStep /\ ChangePasswordResume
  \/ \E cb \in Callbacks : AuthStep /\ AuthSubscribe(cb)
  \/ \E cb \in Callbacks : AuthStep /\ AuthUnsubscribe(cb)
  \/ AuthStep /\ AuthReset
  \/ \E delay \in Delays : AuthStep /\ Advance(delay)

InitAuthOnly == scope = "auth" /\ InitAll

\* A step of the App at the checkout
CheckoutStep ==
  scope = "checkout" /\ Tick /\ UNCHANGED <<devVars, treeVars, authVars, unsubscribed>>

NextCheckout ==
  \/ \E price \in CheckoutPrices :
       CheckoutStep /\ AddItem(LocalSession, PricedOrnament(price)) /\ UNCHANGED checkoutForm
  \/ CheckoutStep /\ RenderCheckoutForm
  \/ CheckoutStep /\ HandleCheckout /\ UNCHANGED checkoutForm

InitCheckout == scope = "checkout" /\ InitAll

\* The page with convex-dev/cart.ts is loaded again
PageStep ==
  scope = "convex-dev" /\ Tick /\ UNCHANGED <<cartVars, treeVars, authVars, checkoutForm, unsubscribed>>

NextPage == PageStep /\ DevLoad

NextPersist == NextDevCart \/ NextOrders \/ NextPage

InitPersist == scope = "convex-dev" /\ InitAll

\* convex-dev/cart.ts and convex-dev/orders.ts over several loads of the page
SpecPersist == InitPersist /\ [][NextPersist]_vars

\* A call of convex-dev/orders.ts that creates or updates an order, or the
\* addItem of convex-dev/cart.ts that gives a session the cart to order
OrderCallStep ==
  scope = "orders" /\ Tick /\ UNCHANGED <<cartVars, treeVars, authVars, checkoutForm, unsubscribed>>

NextOrderCalls ==
  \/ \E s \in Sessions, a \in AddArgs :
       OrderCallStep /\ DevAddItem(s, a) /\ UNCHANGED ordersVars
  \/ \E s \in Sessions, stripe \in StripeIds :
       OrderCallStep /\ Create(s, stripe) /\ UNCHANGED devCartVars
  \/ \E stripe \in StripeIds, status \in Statuses :
       OrderCallStep /\ UpdateStatus(stripe, status) /\ UNCHANGED devCartVars

InitOrders == scope = "orders" /\ InitAll

\* Sequences of create and updateStatus calls of convex-dev/orders.ts
SpecOrders == InitOrders /\ [][NextOrderCalls]_vars

\* The same call made on convex/cart.ts and on convex-dev/cart.ts
LockStep ==
  scope = "lockstep" /\ Tick /\ UNCHANGED <<ordersVars, treeVars, authVars, checkoutForm, unsubscribed>>

\* The id a caller passes for the item at a place of a session's cart, as the
\* module gave it; for a place the cart does not have, an id of no item
IdAt(heap, store, s, place) ==
  IF store[s] # NoRef /\ place <= Len(heap[store[s]].items)
  THEN heap[store[s]].items[place].id
  ELSE generateItemId(heap)

Places == 1 .. (MaxItems + 1)

NextLockstep ==
  \/ \E s \in Sessions : LockStep /\ Get(s) /\ DevGet(s)
  \/ \E s \in Sessions, a \in AddArgs : LockStep /\ AddItem(s, a) /\ DevAddItem(s, a)
  \/ \E s \in Sessions, place \in Places :
       /\ LockStep
       /\ RemoveItem(s, IdAt(cartHeap, cartStore, s, place))
       /\ DevRemoveItem(s, IdAt(devHeap, devStore, s, place))
  \/ \E s \in Sessions, place \in Places, q \in Quantities :
       /\ LockStep
       /\ UpdateQuantity(s, IdAt(cartHeap, cartStore, s, place), q)
       /\ DevUpdateQuantity(s, IdAt(devHeap, devStore, s, place), q)
  \/ \E s \in Sessions : LockStep /\ Clear(s) /\ DevClear(s)

InitLockstep == scope = "lockstep" /\ InitAll

\* The two cart modules, loaded with nothing in storage, given the same calls
SpecLockstep == InitLockstep /\ [][NextLockstep]_vars

\* The checkout of the App: items are added, the form is shown, the order is placed
SpecCheckout == InitCheckout /\ [][NextCheckout]_vars

\* convex-dev/auth.ts, with the calls in flight interleaved at their awaits
SpecAuth == InitAuthOnly /\ [][NextAuth]_vars

\* ================================================================ claims
\* The cart of a session as the queries return it, before and after a step
CartBefore(s) == CartView(cartHeap, cartStore)[s]
CartAfter(s) == CartView(cartHeap', cartStore')[s]
DevBefore(s) == CartView(devHeap, devStore)[s]
DevAfter(s) == CartView(devHeap', devStore')[s]

\* Sum of unitPrice * quantity over the items, front to back
RECURSIVE LineTotals(_)
LineTotals(items) ==
  IF items = <<>> THEN 0
  ELSE Head(items).unitPrice * Head(items).quantity + LineTotals(Tail(items))

Content(item) == AddArg(item.productType, item.productId, item.quantity, item.unitPrice,
                        item.customization)

CountType(items, t) == Cardinality({i \in 1..Len(items) : items[i].productType = t})

\* C1: every cart held in a cart store has subtotal equal to the sum over its
\* items of unitPrice * quantity.
C1_SubtotalIsSum ==
  \A s \in Sessions :
    /\ CartBefore(s).subtotal = LineTotals(CartBefore(s).items)
    /\ DevBefore(s).subtotal = LineTotals(DevBefore(s).items)

\* A cart of two items, one of them of quantity 2, after updateQuantity
C1_Witness ==
  \E s \in Sessions :
    /\ cartCall.op = "updateQuantity" /\ cartCall.sessionId = s /\ cartCall.quantity = 2
    /\ Len(CartBefore(s).items) = 2
    /\ \E i \in 1..2 : /\ CartBefore(s).items[i].id = cartCall.itemId
                       /\ CartBefore(s).items[i].quantity = 2
                       /\ CartBefore(s).items[i].productType = "tree"

\* C2 (the claim as stated): every cart contains at most one item of
\* productType 'tree' and at most one item of productType 'topper'.
C2_AtMostOneTreeAndTopper ==
  \A s \in Sessions :
    /\ CountType(CartBefore(s).items, "tree") <= 1
    /\ CountType(CartBefore(s).items, "topper") <= 1
    /\ CountType(DevBefore(s).items, "tree") <= 1
    /\ CountType(DevBefore(s).items, "topper") <= 1

\* The orders that exist before and after a step
OrderIdsIn(store) == {AllOrders(store)[i].id : i \in 1..Len(AllOrders(store))}
OrderById(store, id) ==
  AllOrders(store)[CHOOSE i \in 1..Len(AllOrders(store)) : AllOrders(store)[i].id = id]

\* C3 (the claim as stated): once an order has been created, the items and
\* the subtotal recorded in its cartSnapshot never change, whatever cart calls
\* follow: no step changes the snapshot of an order that it keeps.
C3_SnapshotNeverChanges ==
  [][ /\ \A id \in OrderIdsIn(ordersStore) \cap OrderIdsIn(ordersStore') :
           LET before == devHeap[OrderById(ordersStore, id).cartSnapshot]
               after == devHeap'[OrderById(ordersStore', id).cartSnapshot]
           IN  after.items = before.items /\ after.subtotal = before.subtotal
      /\ (completedOrder # NoOrder /\ completedOrder' = completedOrder) =>
           LET before == cartHeap[completedOrder.cartSnapshot]
               after == cartHeap'[completedOrder'.cartSnapshot]
           IN  after.items = before.items /\ after.subtotal = before.subtotal
    ]_vars

\* The effect of one addItem of an ornament on the cart of its session
OrnamentAppended(call, before, after) ==
  (call.at = calls' /\ call.op = "addItem" /\ call.add.productType = "ornament") =>
    /\ Len(after.items) = Len(before.items) + 1
    /\ SubSeq(after.items, 1, Len(before.items)) = before.items
    /\ Content(after.items[Len(after.items)]) = call.add
    /\ \A i \in 1..Len(before.items) : before.items[i].id # after.items[Len(after.items)].id
    /\ after.subtotal = before.subtotal + call.add.unitPrice * call.add.quantity

ReplacedOrAppended(call, before, after) ==
  (call.at = calls' /\ call.op = "addItem") =>
    LET same == {i \in 1..Len(before.items) : before.items[i].productId = call.add.productId}
        last == after.items[Len(after.items)]
    IN  IF call.add.productType \in {"tree", "topper"} /\ same # {}
        THEN /\ Len(after.items) = Len(before.items)
             /\ \E i \in same :
                  /\ \A j \in same : i <= j
                  /\ Content(after.items[i]) = call.add
                  /\ \A j \in 1..Len(before.items) : j # i => after.items[j] = before.items[j]
        ELSE /\ Len(after.items) = Len(before.items) + 1
             /\ SubSeq(after.items, 1, Len(before.items)) = before.items
             /\ Content(last) = call.add

OrnamentMerged(call, before, after) ==
  (/\ call.at = calls' /\ call.op = "addItem" /\ call.add.productType = "ornament"
   /\ \E i \in 1..Len(before.items) :
        /\ before.items[i].productId = call.add.productId
        /\ before.items[i].customization.color = call.add.customization.color
        /\ before.items[i].customization.position = call.add.customization.position)
  => Len(after.items) = Len(before.items)

\* C7 (the claim as stated): addItem of an ornament whose productId, colour
\* and position match an item of the cart updates that item's quantity and
\* adds no line item.
C7_MatchingOrnamentMerged ==
  [][ /\ OrnamentMerged(cartCall', CartBefore(cartCall'.sessionId),
                        CartAfter(cartCall'.sessionId))
      /\ OrnamentMerged(devCall', DevBefore(devCall'.sessionId),
                        DevAfter(devCall'.sessionId))
    ]_vars

\* C8: removeItem or updateQuantity for a session that has no cart returns
\* null, leaves the whole cart store unchanged and notifies no listener.
C8_NoCartNoEffect ==
  [][ /\ (cartCall'.at = calls' /\ cartCall'.op \in {"removeItem", "updateQuantity"}
            /\ cartStore[cartCall'.sessionId] = NoRef) =>
           /\ cartCall'.ret = "null"
           /\ cartCall'.notified = <<>>
           /\ cartStore' = cartStore /\ cartHeap' = cartHeap
      /\ (devCall'.at = calls' /\ devCall'.op \in {"removeItem", "updateQuantity"}
            /\ devStore[devCall'.sessionId] = NoRef) =>
           /\ devCall'.ret = "null"
           /\ devCall'.notified = <<>>
           /\ devStore' = devStore /\ devHeap' = devHeap /\ devStorage' = devStorage
    ]_vars

\* updateQuantity returned null for a session without cart while a listener
\* is subscribed and another session has a cart
C8_Witness ==
  \E s \in Sessions :
    /\ devCall.op = "updateQuantity" /\ devCall.sessionId = s /\ devCall.ret = "null"
    /\ devStore[s] = NoRef
    /\ devListeners # <<>>
    /\ \E t \in Sessions : devStore[t] # NoRef


\* Every subscribed callback is in the notifications of the call exactly once,
\* and every notification saw the given view
NotifiedOnce(call, ls, view) ==
  /\ \A cb \in Range(ls) :
       Cardinality({i \in 1..Len(call.notified) : call.notified[i].callback = cb}) = 1
  /\ \A i \in 1..Len(call.notified) : call.notified[i].seen = view

\* C4: a call of a cart, order, ornament, topper or session module that changes
\* what the module stores runs every callback subscribed to that module exactly
\* once within the call, and each of them sees the state after the change.
C4_ChangeNotifiesOnce ==
  [][ /\ (cartCall'.at = calls' /\ <<cartHeap', cartStore'>> # <<cartHeap, cartStore>>)
           => NotifiedOnce(cartCall', listeners, CartView(cartHeap', cartStore'))
      /\ (devCall'.at = calls' /\ <<devHeap', devStore'>> # <<devHeap, devStore>>)
           => NotifiedOnce(devCall', devListeners, CartView(devHeap', devStore'))
      /\ (ordersCall'.at = calls' /\ ordersStore' # ordersStore)
           => NotifiedOnce(ordersCall', ordersListeners, ordersStore')
      /\ (ornamentCall'.at = calls' /\ ornamentsStore' # ornamentsStore)
           => NotifiedOnce(ornamentCall', ornamentListeners, ornamentsStore')
      /\ (topperCall'.at = calls' /\ topperStore' # topperStore)
           => NotifiedOnce(topperCall', topperListeners, topperStore')
      /\ (sessionCall'.at = calls'
            /\ <<sessionStore', treeConfigStore'>> # <<sessionStore, treeConfigStore>>)
           => NotifiedOnce(sessionCall', sessionListeners,
                           SessionView(sessionStore', treeConfigStore'))
    ]_vars

\* An ornament was removed while two callbacks were subscribed, and both ran
\* once and saw the store without it
C4_Witness ==
  /\ ornamentCall.op = "remove" /\ ornamentCall.ret = "true"
  /\ ornamentCall.at = calls
  /\ Len(ornamentListeners) = 2
  /\ Len(ornamentCall.notified) = 2
  /\ ornamentCall.notified[1].callback # ornamentCall.notified[2].callback
  /\ \A i \in 1..2 : ornamentCall.notified[i].seen = ornamentsStore

\* The password a hash was made from: what stands between "hashed_" and the
\* last "_" (the digits after it hold none)
PasswordOf(hash) ==
  LET last == CHOOSE i \in 1..Len(hash) :
                hash[i] = "_" /\ \A j \in (i + 1)..Len(hash) : hash[j] # "_"
  IN  SubSeq(hash, Len(Hashed) + 1, last - 1)

\* The defects of a signup call, against the users stored when it is made
SignupDefect(email, password, users) ==
  \/ ~isValidEmail(email)
  \/ Len(password) < MinPasswordLength
  \/ \E i \in 1..Len(users) : users[i].email = email

\* The defect of a login call that found its user: the password is not the
\* one the user's hash was made from
WrongPassword(c) == c.password # PasswordOf(c.user.passwordHash)

\* The call that returns in this step failed and changed nothing
FailedCleanly ==
  /\ authCall'.ret.success = FALSE
  /\ authCall'.ret.error \in STRING
  /\ usersStore' = usersStore
  /\ sessionsStore' = sessionsStore
  /\ authCall'.notified = <<>>

\* C9: a signup with an invalid email, a password of fewer than 8 characters
\* or a registered email, and a login with an unknown email or a wrong
\* password, returns {success: false, error}, changes neither the users nor
\* the sessions, and runs no callback. A call with one of these defects
\* returns in the step that finds it and never goes on to its await.
C9_FailuresHaveNoEffect ==
  [][ /\ ( /\ authCall'.at = calls' /\ pending' = pending
           /\ authCall'.op = "signup"
           /\ SignupDefect(authCall'.email, authCall'.password, usersStore) )
           => FailedCleanly
      /\ ( /\ authCall'.at = calls' /\ pending' = pending
           /\ authCall'.op = "login"
           /\ FindUserByEmail(usersStore, authCall'.email) = 0 )
           => FailedCleanly
      /\ ( /\ authCall'.at = calls' /\ pending # <<>> /\ pending' = Tail(pending)
           /\ authCall'.op = "login"
           /\ WrongPassword(Head(pending)) )
           => FailedCleanly
      /\ ( Len(pending') > Len(pending) )
           => LET c == pending'[Len(pending')]
              IN  /\ c.op = "signup" => ~SignupDefect(c.email, c.password, usersStore)
                  /\ c.op = "login" => FindUserByEmail(usersStore, c.email) # 0
    ]_vars

\* C10: no two users of the users store have the same email, whatever signup
\* calls are in flight.
C10_EmailsUnique ==
  \A i, j \in 1..Len(usersStore) :
    usersStore[i].email = usersStore[j].email => i = j

\* C11: no value returned by signup, login, validateSession, getCurrentUser,
\* updateProfile, changePassword or _getAllUsers holds a passwordHash field,
\* at the top or in a user it carries.
C11_HashNeverReturned ==
  /\ authCall.op \in {"signup", "login", "updateProfile", "changePassword"}
       => /\ "passwordHash" \notin DOMAIN authCall.ret
          /\ "user" \in DOMAIN authCall.ret => "passwordHash" \notin DOMAIN authCall.ret.user
  /\ authCall.op = "validateSession" => "passwordHash" \notin DOMAIN authCall.ret
  /\ authCall.op = "_getAllUsers"
       => \A i \in 1..Len(authCall.ret) : "passwordHash" \notin DOMAIN authCall.ret[i]

\* A login returned the user of a stored record that holds a hash
C11_Witness ==
  /\ authCall.op = "login" /\ authCall.at = calls
  /\ authCall.ret.success
  /\ \E i \in 1..Len(usersStore) :
       /\ usersStore[i].id = authCall.ret.user.id
       /\ Len(usersStore[i].passwordHash) > 0
       /\ authCall.ret.user.email = usersStore[i].email

\* The tokens of the sessions stored
TokensIn(sessions) == {sessions[i].token : i \in 1..Len(sessions)}

\* C12: after logout(token) the token is not in the sessions store and no
\* later step brings it back, since a token that was issued and is not stored
\* is never stored again, so validateSession(token) returns null from then on;
\* the logout leaves every session under another token as it was.
C12_LogoutInvalidates ==
  [][ /\ (authCall'.at = calls' /\ authCall'.op = "logout")
           => /\ authCall'.token \notin TokensIn(sessionsStore')
              /\ sessionsStore'
                   = Filter(sessionsStore, LAMBDA x : x.token # authCall'.token)
      /\ \A t \in TokensIn(sessionsStore') \ TokensIn(sessionsStore) : t >= nextToken
      /\ nextToken' >= nextToken
      /\ ( /\ authCall'.at = calls' /\ authCall'.op = "validateSession"
           /\ authCall'.token \notin TokensIn(sessionsStore) )
           => authCall'.ret = NullUser
    ]_vars

\* A token was logged out while another session of the same user stays stored
C12_Witness ==
  /\ authCall.op = "logout" /\ authCall.at = calls
  /\ authCall.token >= 1 /\ authCall.token < nextToken
  /\ authCall.token \notin TokensIn(sessionsStore)
  /\ Len(usersStore) = 1
  /\ \E i \in 1..Len(sessionsStore) :
       sessionsStore[i].userId = usersStore[1].id /\ sessionsStore[i].expiresAt >= now

\* C13: login succeeds exactly when a user with the email exists and the
\* password given is the one the user's hash was last made from, by signup or
\* by changePassword; every other login returns 'Invalid email or password'.
\* The password is compared when login is called, and the call returns what
\* the comparison found.
C13_LoginIffExactPassword ==
  [][ /\ ( /\ authCall'.at = calls' /\ pending' = pending /\ authCall'.op = "login" )
           => /\ FindUserByEmail(usersStore, authCall'.email) = 0
              /\ authCall'.ret = Failure("Invalid email or password")
      /\ ( Len(pending') > Len(pending) /\ pending'[Len(pending')].op = "login" )
           => LET c == pending'[Len(pending')]
              IN  /\ FindUserByEmail(usersStore, c.email) # 0
                  /\ c.validPassword <=> (c.password = PasswordOf(c.user.passwordHash))
      /\ ( /\ authCall'.at = calls' /\ pending # <<>> /\ pending' = Tail(pending)
           /\ authCall'.op = "login" )
           => IF Head(pending).validPassword
              THEN authCall'.ret.success
              ELSE authCall'.ret = Failure("Invalid email or password")
    ]_vars

\* The shipping cost the claim names for a subtotal
FreeOver50000(subtotal) == IF subtotal > 50000 THEN 0 ELSE 1999

\* C14: the shipping cost at the checkout is 0 for a subtotal over 50000 and
\* 1999 for every other subtotal, in the form and in the order, and the two
\* agree for the same subtotal.
C14_FreeShippingOver500 ==
  /\ checkoutForm.shown => checkoutForm.shippingCost = FreeOver50000(checkoutForm.subtotal)
  /\ completedOrder # NoOrder
       => completedOrder.shippingCost = FreeOver50000(completedOrder.subtotal)
  /\ (checkoutForm.shown /\ completedOrder # NoOrder
        /\ checkoutForm.subtotal = completedOrder.subtotal)
       => checkoutForm.shippingCost = completedOrder.shippingCost

\* A cart as the claim compares it: the items in order, without their ids,
\* and the subtotal
Compared(cart) ==
  [items |-> [i \in 1..Len(cart.items) |-> Content(cart.items[i])], subtotal |-> cart.subtotal]

\* C15: given the same get, addItem, removeItem, updateQuantity and clear
\* calls, convex/cart.ts and convex-dev/cart.ts hold after each call the same
\* cart for every session (or none in both), item for item and in subtotal,
\* and the call returns null in the one exactly when it does in the other.
C15_CartModulesAgree ==
  /\ \A s \in Sessions :
       /\ (cartStore[s] = NoRef) <=> (devStore[s] = NoRef)
       /\ Compared(CartBefore(s)) = Compared(DevBefore(s))
  /\ cartCall.op = devCall.op
  /\ (cartCall.ret = "null") <=> (devCall.ret = "null")

\* Both modules changed the quantity of the first of two items
C15_Witness ==
  \E s \in Sessions :
    /\ cartCall.op = "updateQuantity" /\ devCall.op = "updateQuantity"
    /\ cartCall.at = calls /\ devCall.at = calls
    /\ Len(CartBefore(s).items) = 2 /\ Len(DevBefore(s).items) = 2
    /\ CartBefore(s).items[1].id = cartCall.itemId
    /\ DevBefore(s).items[1].id = devCall.itemId
    /\ DevBefore(s).items[1].quantity = 2
    /\ DevBefore(s).items[2].quantity = 1

QuantityUpdated(call, before, after) ==
  LET found == \E i \in 1..Len(before.items) : before.items[i].id = call.itemId
  IN  /\ (found /\ call.quantity <= 0)
           => after.items = Filter(before.items, LAMBDA item : item.id # call.itemId)
      /\ (found /\ call.quantity > 0)
           => /\ Len(after.items) = Len(before.items)
              /\ \A i \in 1..Len(before.items) :
                   after.items[i] = IF before.items[i].id = call.itemId
                                    THEN [before.items[i] EXCEPT !.quantity = call.quantity]
                                    ELSE before.items[i]
      /\ ~found => /\ after.items = before.items
                   /\ after.subtotal = before.subtotal

\* C17: updateQuantity on a session that has a cart removes the item of the
\* given id when the quantity is 0 or less and sets its quantity otherwise,
\* every other item keeping its content and place among the others; when no
\* item has the id, the items and the subtotal stay as they were.
C17_UpdateQuantity ==
  [][ \A s \in Sessions :
        /\ ( /\ cartCall'.at = calls' /\ cartCall'.op = "updateQuantity"
             /\ cartCall'.sessionId = s /\ cartStore[s] # NoRef )
             => QuantityUpdated(cartCall', CartBefore(s), CartAfter(s))
        /\ ( /\ devCall'.at = calls' /\ devCall'.op = "updateQuantity"
             /\ devCall'.sessionId = s /\ devStore[s] # NoRef )
             => QuantityUpdated(devCall', DevBefore(s), DevAfter(s))
    ]_vars

\* convex-dev/cart.ts set the quantity of the first of two items to 2
C17_Witness ==
  \E s \in Sessions :
    /\ devCall.op = "updateQuantity" /\ devCall.at = calls /\ devCall.sessionId = s
    /\ devCall.quantity = 2 /\ devCall.ret = "cart"
    /\ Len(DevBefore(s).items) = 2
    /\ DevBefore(s).items[1].id = devCall.itemId
    /\ DevBefore(s).items[1].quantity = 2
    /\ DevBefore(s).items[2].id # devCall.itemId

\* The callbacks a call invoked
InvokedBy(call) == {call.notified[i].callback : i \in 1..Len(call.notified)}

\* What a call of a module did with the module's subscriptions, ls before the
\* call and ls2 after it: calling a function subscribe returned takes one
\* callback out and leaves the others in their order, only subscribe puts a
\* callback in, and it puts in no callback that is in already; the call invoked
\* no callback that was not subscribed, and when it changed the store it
\* invoked every subscribed one
SubscriptionsKept(call, ls, ls2, changed) ==
  /\ Cardinality(Range(ls2)) = Len(ls2)
  /\ call.op = "subscribe"
       => \E cb \in Callbacks :
            /\ cb \in Range(ls2)
            /\ cb \in Range(ls) => ls2 = ls
            /\ cb \notin Range(ls) => ls2 = Append(ls, cb)
  /\ call.op = "unsubscribe"
       => \E i \in 1..Len(ls) :
            ls2 = [j \in 1..(Len(ls) - 1) |-> IF j < i THEN ls[j] ELSE ls[j + 1]]
  /\ call.op \notin {"subscribe", "unsubscribe"} => ls2 = ls
  /\ InvokedBy(call) \subseteq Range(ls)
  /\ changed => InvokedBy(call) = Range(ls)

\* C18, as amended: in the cart, order, ornament, topper and session modules,
\* calling the function subscribe(callback) returned takes that callback, and
\* no other, out of the module's subscriptions; a callback is put in by a call
\* of subscribe only, once however often it is subscribed; and a call invokes
\* subscribed callbacks only, all of them when it changes the store. So an
\* unsubscribed callback is not invoked by a later mutation unless it was
\* passed to subscribe again, and the others are.
C18_UnsubscribeWorks ==
  [][ /\ cartCall'.at = calls'
           => /\ SubscriptionsKept(cartCall', listeners, listeners',
                                   <<cartHeap', cartStore'>> # <<cartHeap, cartStore>>)
              /\ cartCall'.op = "unsubscribe" => cartCall'.sessionId \notin Range(listeners')
      /\ devCall'.at = calls'
           => /\ SubscriptionsKept(devCall', devListeners, devListeners',
                                   <<devHeap', devStore'>> # <<devHeap, devStore>>)
              /\ devCall'.op = "unsubscribe" => devCall'.sessionId \notin Range(devListeners')
      /\ ordersCall'.at = calls'
           => SubscriptionsKept(ordersCall', ordersListeners, ordersListeners',
                                ordersStore' # ordersStore)
      /\ ornamentCall'.at = calls'
           => SubscriptionsKept(ornamentCall', ornamentListeners, ornamentListeners',
                                ornamentsStore' # ornamentsStore)
      /\ topperCall'.at = calls'
           => SubscriptionsKept(topperCall', topperListeners, topperListeners',
                                topperStore' # topperStore)
      /\ sessionCall'.at = calls'
           => SubscriptionsKept(sessionCall', sessionListeners, sessionListeners',
                                <<sessionStore', treeConfigStore'>>
                                  # <<sessionStore, treeConfigStore>>)
    ]_vars

\* The function subscribe returned for "cb1" was just called while "cb2" was
\* subscribed too, after a call that had put a cart into the store: "cb2" alone
\* is left
C18_Witness ==
  /\ cartCall.at = calls /\ cartCall.op = "unsubscribe" /\ cartCall.sessionId = "cb1"
  /\ listeners = <<"cb2">>
  /\ \E s \in Sessions : cartStore[s] # NoRef

\* C18, as the specification states it: once the function subscribe(callback)
\* returned has been called, no later call of convex/cart.ts invokes that
\* callback.
C18_NeverInvokedAgain ==
  [][ cartCall'.at = calls' => InvokedBy(cartCall') \cap unsubscribed = {} ]_vars

\* The ids of the orders of a list, in the order of the list
IdsOf(orders) == [i \in 1..Len(orders) |-> orders[i].id]

\* An order as it is apart from what updateStatus writes
Unstatused(order) == [order EXCEPT !.status = "any"]

\* C19: create puts the new order, with status 'pending', at the end of the
\* list getBySession returns for its session and leaves every other list as it
\* was; a create or updateStatus call removes no order from the list of its
\* session, moves none within it or to another session, and changes at most
\* the status of one; and getById finds every order of every list, so that a
\* list holds its session's orders in the order of their creation.
C19_OrdersKept ==
  [][ ordersCall'.at = calls' =>
        /\ \A s \in Sessions :
             LET before == getBySession(ordersStore, s)
                 after == getBySession(ordersStore', s)
             IN  /\ Len(after) >= Len(before)
                 /\ \A i \in 1..Len(before) : Unstatused(after[i]) = Unstatused(before[i])
                 /\ \A i \in 1..Len(after) :
                      /\ after[i].sessionId = s
                      /\ getById(ordersStore', after[i].id) = after[i]
        /\ ordersCall'.op = "create"
             => \E s \in Sessions :
                  LET before == getBySession(ordersStore, s)
                      after == getBySession(ordersStore', s)
                  IN  /\ Len(after) = Len(before) + 1
                      /\ after[Len(after)].id = ordersCall'.ret
                      /\ after[Len(after)].status = "pending"
                      /\ after[Len(after)].id \notin OrderIdsIn(ordersStore)
                      /\ SubSeq(after, 1, Len(before)) = before
                      /\ \A t \in Sessions \ {s} :
                           getBySession(ordersStore', t) = getBySession(ordersStore, t)
        /\ ordersCall'.op = "updateStatus"
             => \A s \in Sessions :
                  IdsOf(getBySession(ordersStore', s)) = IdsOf(getBySession(ordersStore, s))
    ]_vars

\* The second order of a session was just created after the first one had
\* been marked paid: it stands last in its list, pending, behind the paid one
C19_Witness ==
  /\ ordersCall.at = calls /\ ordersCall.op = "create"
  /\ \E s \in Sessions :
       LET orders == getBySession(ordersStore, s)
       IN  /\ Len(orders) = 2
           /\ orders[1].status = "paid"
           /\ orders[2].status = "pending" /\ orders[2].id = ordersCall.ret

====
